---- MODULE Spec2Model ----
(***************************************************************************)
(* Secret resolution of guo/keytar: SecretsManager (src/src/index.ts)      *)
(* resolves a secret from the process environment first and from the OS    *)
(* credential store (keytar) second, and writes / deletes store entries.   *)
(* Strings are sequences of one-character strings, so that trim() and the  *)
(* JavaScript truthiness of a string are computed, not assumed.            *)
(***************************************************************************)
EXTENDS Integers, Sequences, FiniteSets, TLC

\* ------------------------------------------------------------------ bounds
\* longest environment value the environment sets
MaxLen == 1

\* ------------------------------------------------------ strings and inputs
EMPTY == <<>>

\* characters an environment value is made of: a whitespace and a letter
EnvChars == {" ", "v"}

\* every string over cs of length at most n
StringsUpTo(cs, n) == UNION {[1..k -> cs] : k \in 0..n}

EnvValues == StringsUpTo(EnvChars, MaxLen)

\* the characters String.prototype.trim() strips (the sample used here)
IsWhitespace(c) == c = " "

RECURSIVE TrimStart(_)
TrimStart(s) ==
  IF s = EMPTY THEN EMPTY
  ELSE IF IsWhitespace(Head(s)) THEN TrimStart(Tail(s))
  ELSE s

RECURSIVE TrimEnd(_)
TrimEnd(s) ==
  IF s = EMPTY THEN EMPTY
  ELSE IF IsWhitespace(s[Len(s)]) THEN TrimEnd(SubSeq(s, 1, Len(s) - 1))
  ELSE s

\* String.prototype.trim()
Trim(s) == TrimEnd(TrimStart(s))

\* JavaScript truthiness of a string that is not undefined / null
Truthy(s) == s # EMPTY

\* service names the callers construct managers with
Services == {"svcA", "svcB"}

\* secret names the callers ask for; "salt" is the reserved salt name
ReservedSaltName == "salt"
Names == {"K", ReservedSaltName}

\* names the environment may define
EnvNames == {"K"}

\* secret values the callers write
SecretValues == {<<"v">>, <<"w">>}

\* ------------------------------------------------------------- salt tokens
SaltLength == 8

Alphanumeric ==
  {"A","B","C","D","E","F","G","H","I","J","K","L","M","N","O","P","Q","R",
   "S","T","U","V","W","X","Y","Z","a","b","c","d","e","f","g","h","i","j",
   "k","l","m","n","o","p","q","r","s","t","u","v","w","x","y","z",
   "0","1","2","3","4","5","6","7","8","9"}

\* the outcomes of the random source that are explored
RandomTokens == {[i \in 1..SaltLength |-> c] : c \in {"a", "7"}}

\* salts a caller passes to initializeSalt
ProvidedSalts == {<<"w">>}

\* entry of the store that holds the salt of a base service
DefaultSaltKey == "salt"
SaltKeys == {DefaultSaltKey}

\* a manager is its immutable identity
Managers == [serviceName : Services, saltKey : SaltKeys]

createSecretsManager(serviceName) ==
  [serviceName |-> serviceName, saltKey |-> DefaultSaltKey]

\* --------------------------------------------------------------------- state
VARIABLES
  env,      \* process.env: a partial function from names to strings
  store,    \* the credential store: partial function <<service, account>> -> string
  keytar,   \* "ok", or "unavailable": import("keytar") or the keytar call throws
  written,  \* history: last value each manager wrote under each name and did not delete
  last,     \* the operation just performed, with its arguments and outcome
  script,   \* the command-line script being run: its arguments and position
  race      \* the two processes that race on one base service

vars == <<env, store, keytar, written, last, script, race>>

\* no script is running
NoScript == [kind |-> "none", pc |-> "idle"]

\* no racing processes
NoRace == [pc |-> "idle"]

KeytarModes == {"ok", "unavailable"}

NoOp ==
  [op |-> "none", svc |-> "", name |-> "", val |-> EMPTY, given |-> FALSE,
   out |-> "", str |-> EMPTY, from |-> ""]

\* op: the operation; svc, name, val: the manager and the arguments (given: an
\* optional argument was supplied); out: how it ended; str: the string it
\* returned (of a successful write: the value it replaced, if any); from: the
\* branch that produced the result
Op(op, svc, name, val, given, out, str, from) ==
  [op |-> op, svc |-> svc, name |-> name, val |-> val, given |-> given,
   out |-> out, str |-> str, from |-> from]

\* ------------------------------------------------------- environment lookup
\* process.env[name] is undefined when the variable is not set
EnvDefined(name) == name \in DOMAIN env

\* fromEnv && fromEnv.trim() !== ""
EnvNonBlank(name) ==
  /\ EnvDefined(name)
  /\ Truthy(env[name])
  /\ Trim(env[name]) # EMPTY

\* -------------------------------------------------- credential store (keytar)
Key(service, account) == <<service, account>>

\* keytar.getPassword(service, account) !== null
HasPassword(st, service, account) == Key(service, account) \in DOMAIN st

\* a setPassword that keeps the value of an entry that exists
KeytarSetPasswordKeepFirst(st, service, account, value) ==
  [k \in DOMAIN st \cup {Key(service, account)} |->
     IF k \in DOMAIN st THEN st[k] ELSE value]

\* keytar.setPassword(service, account, value)
KeytarSetPassword(st, service, account, value) ==
  [k \in DOMAIN st \cup {Key(service, account)} |->
     IF k = Key(service, account) THEN value ELSE st[k]]

\* a deletePassword that removes the account from every service
KeytarDeleteAccountEverywhere(st, service, account) ==
  [k \in {j \in DOMAIN st : j[2] # account} |-> st[k]]

\* the store after keytar.deletePassword(service, account)
KeytarDeletePassword(st, service, account) ==
  [k \in DOMAIN st \ {Key(service, account)} |-> st[k]]

DEFAULT_SERVICE_NAME == "keytar-secrets"

\* a salt (a sequence of characters) as the string it is
RECURSIVE Str(_)
Str(s) == IF s = EMPTY THEN "" ELSE Head(s) \o Str(Tail(s))

\* the scoped service of a secret name n: the base service for the reserved
\* salt name, no service while the base service has no salt, else
\* baseServiceName + "-" + salt
ScopedService(m, n) ==
  IF n = ReservedSaltName THEN [ok |-> TRUE, service |-> m.serviceName]
  ELSE IF ~HasPassword(store, m.serviceName, m.saltKey)
  THEN [ok |-> FALSE, service |-> ""]
  ELSE [ok |-> TRUE,
        service |-> m.serviceName \o "-"
                      \o Str(store[Key(m.serviceName, m.saltKey)])]

\* a manager that passes the default service instead of its own
ServiceOfDefault(m) == DEFAULT_SERVICE_NAME

\* a manager that appends the salt of its base service to the service it passes
ServiceOfSalted(m) ==
  IF HasPassword(store, m.serviceName, m.saltKey)
  THEN m.serviceName \o "-" \o Str(store[Key(m.serviceName, m.saltKey)])
  ELSE m.serviceName

\* the service string a manager passes to keytar
ServiceOf(m) == m.serviceName

\* ----------------------------------------------------------------- getSecret
\* the try block of getSecret: import keytar, look the value up
KeytarLookup(m, name) ==
  IF keytar # "ok" THEN [threw |-> TRUE, found |-> FALSE, value |-> EMPTY]
  ELSE IF HasPassword(store, ServiceOf(m), name)
       THEN [threw |-> FALSE, found |-> TRUE,
             value |-> store[Key(ServiceOf(m), name)]]
       ELSE [threw |-> FALSE, found |-> FALSE, value |-> EMPTY]

\* getSecret asking the store before the environment
GetSecretStoreFirst(m, name) ==
  LET r == KeytarLookup(m, name) IN
  IF ~r.threw /\ r.found /\ Truthy(r.value)
  THEN [out |-> "return", str |-> r.value, from |-> "store"]
  ELSE IF EnvNonBlank(name)
  THEN [out |-> "return", str |-> env[name], from |-> "env"]
  ELSE [out |-> "return", str |-> EMPTY, from |-> "none"]

\* getSecret without its catch block
GetSecretNoCatch(m, name) ==
  IF EnvNonBlank(name)
  THEN [out |-> "return", str |-> env[name], from |-> "env"]
  ELSE LET r == KeytarLookup(m, name) IN
       IF r.threw THEN [out |-> "throw", str |-> EMPTY, from |-> "caught"]
       ELSE IF r.found /\ Truthy(r.value)
            THEN [out |-> "return", str |-> r.value, from |-> "store"]
            ELSE [out |-> "return", str |-> EMPTY, from |-> "none"]

\* getSecret taking any non-empty environment value, whitespace included
GetSecretNoTrim(m, name) ==
  IF EnvDefined(name) /\ Truthy(env[name])
  THEN [out |-> "return", str |-> env[name], from |-> "env"]
  ELSE LET r == KeytarLookup(m, name) IN
       IF r.threw THEN [out |-> "return", str |-> EMPTY, from |-> "caught"]
       ELSE IF r.found /\ Truthy(r.value)
            THEN [out |-> "return", str |-> r.value, from |-> "store"]
            ELSE [out |-> "return", str |-> EMPTY, from |-> "none"]

\* getSecret answering from the environment only
GetSecretEnvOnly(m, name) ==
  IF EnvNonBlank(name)
  THEN [out |-> "return", str |-> env[name], from |-> "env"]
  ELSE [out |-> "return", str |-> EMPTY, from |-> "none"]

\* getSecret returning null where nothing was found
GetSecretReturnsNull(m, name) ==
  IF EnvNonBlank(name)
  THEN [out |-> "return", str |-> env[name], from |-> "env"]
  ELSE LET r == KeytarLookup(m, name) IN
       IF r.threw THEN [out |-> "null", str |-> EMPTY, from |-> "caught"]
       ELSE IF r.found /\ Truthy(r.value)
            THEN [out |-> "return", str |-> r.value, from |-> "store"]
            ELSE [out |-> "null", str |-> EMPTY, from |-> "none"]

\* getSecret passing on whatever keytar.getPassword answered, null included
GetSecretPassesLookup(m, name) ==
  IF EnvNonBlank(name)
  THEN [out |-> "return", str |-> env[name], from |-> "env"]
  ELSE LET r == KeytarLookup(m, name) IN
       IF r.threw THEN [out |-> "return", str |-> EMPTY, from |-> "caught"]
       ELSE IF r.found
            THEN [out |-> "return", str |-> r.value, from |-> "store"]
            ELSE [out |-> "null", str |-> EMPTY, from |-> "none"]

\* getSecret of a manager that answers from what it wrote earlier
GetSecretWriteCache(m, name) ==
  IF EnvNonBlank(name)
  THEN [out |-> "return", str |-> env[name], from |-> "env"]
  ELSE IF name \in DOMAIN written[m.serviceName]
  THEN [out |-> "return", str |-> written[m.serviceName][name], from |-> "store"]
  ELSE LET r == KeytarLookup(m, name) IN
       IF r.threw THEN [out |-> "return", str |-> EMPTY, from |-> "caught"]
       ELSE IF r.found /\ Truthy(r.value)
            THEN [out |-> "return", str |-> r.value, from |-> "store"]
            ELSE [out |-> "return", str |-> EMPTY, from |-> "none"]

\* outcome of getSecret(name): out is "return" (a string, str, was returned),
\* "null" (null was returned) or "throw"; from is the tier that answered
GetSecretOutcome(m, name) ==
  IF EnvNonBlank(name)
  THEN [out |-> "return", str |-> env[name], from |-> "env"]
  ELSE LET r == KeytarLookup(m, name) IN
       IF r.threw THEN [out |-> "return", str |-> EMPTY, from |-> "caught"]
       ELSE IF r.found /\ Truthy(r.value)
            THEN [out |-> "return", str |-> r.value, from |-> "store"]
            ELSE [out |-> "return", str |-> EMPTY, from |-> "none"]

\* a getSecret that saves the environment value it found to the store
GetSecretSavesEnv(m, name) ==
  LET o == GetSecretOutcome(m, name) IN
  /\ last' = Op("get", m.serviceName, name, EMPTY, FALSE, o.out, o.str, o.from)
  /\ store' = IF o.from = "env" /\ keytar = "ok"
              THEN KeytarSetPassword(store, ServiceOf(m), name, o.str)
              ELSE store
  /\ UNCHANGED <<env, keytar, written, script, race>>

GetSecret(m, name) ==
  LET o == GetSecretOutcome(m, name) IN
  /\ last' = Op("get", m.serviceName, name, EMPTY, FALSE, o.out, o.str, o.from)
  /\ UNCHANGED <<env, store, keytar, written, script, race>>

\* ---------------------------------------------------------- setSecretToKeytar
\* setSecretToKeytar writing under the default service
SetSecretDefaultService(m, name, value) ==
  IF keytar # "ok"
  THEN [out |-> "throw", err |-> "StoreUnavailable", store |-> store]
  ELSE [out |-> "void", err |-> "",
        store |-> KeytarSetPassword(store, DEFAULT_SERVICE_NAME, name, value)]

\* setSecretToKeytar refusing to write while the base service has no salt
SetSecretRequiresSalt(m, name, value) ==
  IF keytar # "ok"
  THEN [out |-> "throw", err |-> "StoreUnavailable", store |-> store]
  ELSE IF name # ReservedSaltName /\ ~HasPassword(store, m.serviceName, m.saltKey)
  THEN [out |-> "throw", err |-> "SaltMissing", store |-> store]
  ELSE [out |-> "void", err |-> "",
        store |-> KeytarSetPassword(store, ServiceOf(m), name, value)]

\* setSecretToKeytar returning before the write was issued
SetSecretDropsWrite(m, name, value) ==
  IF keytar # "ok"
  THEN [out |-> "throw", err |-> "StoreUnavailable", store |-> store]
  ELSE [out |-> "void", err |-> "", store |-> store]

\* setSecretToKeytar swallowing the failure of the import, as getSecret does
SetSecretSwallowsError(m, name, value) ==
  IF keytar # "ok"
  THEN [out |-> "void", err |-> "", store |-> store]
  ELSE [out |-> "void", err |-> "",
        store |-> KeytarSetPassword(store, ServiceOf(m), name, value)]

\* outcome of setSecretToKeytar(name, value): "void" with the store written,
\* or "throw" (the import rethrown as "keytar not available", or the error of
\* setPassword) with the store as it was
SetSecretOutcome(m, name, value) ==
  IF keytar # "ok"
  THEN [out |-> "throw", err |-> "StoreUnavailable", store |-> store]
  ELSE [out |-> "void", err |-> "",
        store |-> KeytarSetPassword(store, ServiceOf(m), name, value)]

\* history kept for the isolation properties: what a manager last wrote
Remember(m, name, value) ==
  [written EXCEPT ![m.serviceName] =
     [n \in DOMAIN @ \cup {name} |-> IF n = name THEN value ELSE @[n]]]

Forget(m, name) ==
  [written EXCEPT ![m.serviceName] = [n \in DOMAIN @ \ {name} |-> @[n]]]

SetSecretToKeytar(m, name, value) ==
  LET o == SetSecretOutcome(m, name, value) IN
  /\ store' = o.store
  /\ written' = IF o.out = "void" THEN Remember(m, name, value) ELSE written
  /\ last' = Op("set", m.serviceName, name, value, TRUE, o.out,
                IF o.out = "void" /\ HasPassword(store, m.serviceName, name)
                THEN store[Key(m.serviceName, name)] ELSE EMPTY, o.err)
  /\ UNCHANGED <<env, keytar, script, race>>

\* ----------------------------------------------------- deleteSecretFromKeytar
\* deleteSecretFromKeytar reporting success without deleting
DeleteSecretKeepsEntry(m, name) ==
  IF keytar # "ok"
  THEN [out |-> "throw", err |-> "StoreUnavailable", store |-> store]
  ELSE IF HasPassword(store, ServiceOf(m), name)
       THEN [out |-> "true", err |-> "", store |-> store]
       ELSE [out |-> "false", err |-> "", store |-> store]

\* deleteSecretFromKeytar removing every entry of the service
DeleteSecretWholeService(m, name) ==
  IF keytar # "ok"
  THEN [out |-> "throw", err |-> "StoreUnavailable", store |-> store]
  ELSE IF HasPassword(store, ServiceOf(m), name)
       THEN [out |-> "true", err |-> "",
             store |-> [k \in {j \in DOMAIN store : j[1] # ServiceOf(m)}
                          |-> store[k]]]
       ELSE [out |-> "false", err |-> "", store |-> store]

\* outcome of deleteSecretFromKeytar(name): "true" / "false" as
\* keytar.deletePassword answers, or "throw"
DeleteSecretOutcome(m, name) ==
  IF keytar # "ok"
  THEN [out |-> "throw", err |-> "StoreUnavailable", store |-> store]
  ELSE IF HasPassword(store, ServiceOf(m), name)
       THEN [out |-> "true", err |-> "",
             store |-> KeytarDeletePassword(store, ServiceOf(m), name)]
       ELSE [out |-> "false", err |-> "", store |-> store]

DeleteSecretFromKeytar(m, name) ==
  LET o == DeleteSecretOutcome(m, name) IN
  /\ store' = o.store
  /\ written' = IF o.out = "true" THEN Forget(m, name) ELSE written
  /\ last' = Op("delete", m.serviceName, name, EMPTY, FALSE, o.out, EMPTY, o.err)
  /\ UNCHANGED <<env, keytar, script, race>>

\* ------------------------------------------------------------ saveEnvToKeytar
\* saveEnvToKeytar saving any non-empty environment value, whitespace included
SaveEnvNoTrim(m, name) ==
  IF ~EnvDefined(name) \/ ~Truthy(env[name])
  THEN [out |-> "false", store |-> store, value |-> EMPTY]
  ELSE LET o == SetSecretOutcome(m, name, env[name]) IN
       IF o.out = "throw"
       THEN [out |-> "false", store |-> o.store, value |-> env[name]]
       ELSE [out |-> "true", store |-> o.store, value |-> env[name]]

\* saveEnvToKeytar reporting success without writing the value
SaveEnvReportsOnly(m, name) ==
  IF ~EnvDefined(name) \/ ~Truthy(env[name]) \/ Trim(env[name]) = EMPTY
  THEN [out |-> "false", store |-> store, value |-> EMPTY]
  ELSE IF keytar # "ok"
  THEN [out |-> "false", store |-> store, value |-> env[name]]
  ELSE [out |-> "true", store |-> store, value |-> env[name]]

\* saveEnvToKeytar without its try / catch around the write
SaveEnvRethrows(m, name) ==
  IF ~EnvDefined(name) \/ ~Truthy(env[name]) \/ Trim(env[name]) = EMPTY
  THEN [out |-> "false", store |-> store, value |-> EMPTY]
  ELSE LET o == SetSecretOutcome(m, name, env[name]) IN
       IF o.out = "throw"
       THEN [out |-> "throw", store |-> o.store, value |-> env[name]]
       ELSE [out |-> "true", store |-> o.store, value |-> env[name]]

\* outcome of saveEnvToKeytar(name): "false" when the variable is missing or
\* blank, else the outcome of setSecretToKeytar with its error caught
SaveEnvOutcome(m, name) ==
  IF ~EnvDefined(name) \/ ~Truthy(env[name]) \/ Trim(env[name]) = EMPTY
  THEN [out |-> "false", store |-> store, value |-> EMPTY]
  ELSE LET o == SetSecretOutcome(m, name, env[name]) IN
       IF o.out = "throw"
       THEN [out |-> "false", store |-> o.store, value |-> env[name]]
       ELSE [out |-> "true", store |-> o.store, value |-> env[name]]

SaveEnvToKeytar(m, name) ==
  LET o == SaveEnvOutcome(m, name) IN
  /\ store' = o.store
  /\ written' = IF o.out = "true" THEN Remember(m, name, o.value) ELSE written
  /\ last' = Op("save", m.serviceName, name, o.value, FALSE, o.out, EMPTY, "")
  /\ UNCHANGED <<env, keytar, script, race>>

\* -------------------------------------------------------------- initializeSalt
\* initializeSalt letting a provided salt replace the existing one
InitializeSaltOverwrite(m, given, providedSalt, token) ==
  IF keytar # "ok"
  THEN [out |-> "throw", str |-> EMPTY, from |-> "StoreUnavailable",
        store |-> store]
  ELSE IF HasPassword(store, m.serviceName, m.saltKey) /\ ~given
  THEN [out |-> "return", str |-> store[Key(m.serviceName, m.saltKey)],
        from |-> "existing", store |-> store]
  ELSE LET salt == IF given THEN providedSalt ELSE token IN
       [out |-> "return", str |-> salt,
        from |-> IF given THEN "provided" ELSE "generated",
        store |-> KeytarSetPassword(store, m.serviceName, m.saltKey, salt)]

\* initializeSalt generating a fresh token on every call without a salt argument
InitializeSaltRegenerate(m, given, providedSalt, token) ==
  IF keytar # "ok"
  THEN [out |-> "throw", str |-> EMPTY, from |-> "StoreUnavailable",
        store |-> store]
  ELSE IF HasPassword(store, m.serviceName, m.saltKey) /\ given
  THEN [out |-> "return", str |-> store[Key(m.serviceName, m.saltKey)],
        from |-> "existing", store |-> store]
  ELSE LET salt == IF given THEN providedSalt ELSE token IN
       [out |-> "return", str |-> salt,
        from |-> IF given THEN "provided" ELSE "generated",
        store |-> KeytarSetPassword(store, m.serviceName, m.saltKey, salt)]

\* initializeSalt returning a new salt it never persisted
InitializeSaltNoPersist(m, given, providedSalt, token) ==
  IF keytar # "ok"
  THEN [out |-> "throw", str |-> EMPTY, from |-> "StoreUnavailable",
        store |-> store]
  ELSE IF HasPassword(store, m.serviceName, m.saltKey)
  THEN [out |-> "return", str |-> store[Key(m.serviceName, m.saltKey)],
        from |-> "existing", store |-> store]
  ELSE LET salt == IF given THEN providedSalt ELSE token IN
       [out |-> "return", str |-> salt,
        from |-> IF given THEN "provided" ELSE "generated",
        store |-> store]

\* outcome of initializeSalt(providedSalt?): an existing salt of the base
\* service wins; otherwise the provided salt, or else the generated token, is
\* persisted under (baseServiceName, saltStorageKey) and returned
InitializeSaltOutcome(m, given, providedSalt, token) ==
  IF keytar # "ok"
  THEN [out |-> "throw", str |-> EMPTY, from |-> "StoreUnavailable",
        store |-> store]
  ELSE IF HasPassword(store, m.serviceName, m.saltKey)
  THEN [out |-> "return", str |-> store[Key(m.serviceName, m.saltKey)],
        from |-> "existing", store |-> store]
  ELSE LET salt == IF given THEN providedSalt ELSE token IN
       [out |-> "return", str |-> salt,
        from |-> IF given THEN "provided" ELSE "generated",
        store |-> KeytarSetPassword(store, m.serviceName, m.saltKey, salt)]

InitializeSalt(m, given, providedSalt, token) ==
  LET o == InitializeSaltOutcome(m, given, providedSalt, token) IN
  /\ store' = o.store
  /\ last' = Op("init", m.serviceName, m.saltKey,
                IF given THEN providedSalt ELSE EMPTY, given,
                o.out, o.str, o.from)
  /\ UNCHANGED <<env, keytar, written, script, race>>

\* ---------------------------------------------------------- the environment
SetEnv(name, value) ==
  /\ env' = [n \in DOMAIN env \cup {name} |-> IF n = name THEN value ELSE env[n]]
  /\ last' = NoOp
  /\ UNCHANGED <<store, keytar, written, script, race>>

\* delete process.env[name]
UnsetEnv(name) ==
  /\ name \in DOMAIN env
  /\ env' = [n \in DOMAIN env \ {name} |-> env[n]]
  /\ last' = NoOp
  /\ UNCHANGED <<store, keytar, written, script, race>>

\* the platform: keytar becomes unavailable, or available again
SetKeytar(mode) ==
  /\ mode # keytar
  /\ keytar' = mode
  /\ last' = NoOp
  /\ UNCHANGED <<env, store, written, script, race>>

\* ---------------------------------------------------------------------- spec
Init ==
  /\ env = << >>
  /\ store = << >>
  /\ keytar \in KeytarModes
  /\ written = [s \in Services |-> << >>]
  /\ last = NoOp
  /\ script = NoScript
  /\ race = NoRace

Next ==
  \/ \E n \in EnvNames, v \in EnvValues : SetEnv(n, v)
  \/ \E n \in EnvNames : UnsetEnv(n)
  \/ \E mode \in KeytarModes : SetKeytar(mode)
  \/ \E m \in Managers, n \in Names : GetSecret(m, n)
  \/ \E m \in Managers, n \in Names, v \in SecretValues : SetSecretToKeytar(m, n, v)
  \/ \E m \in Managers, n \in Names : DeleteSecretFromKeytar(m, n)
  \/ \E m \in Managers, n \in Names : SaveEnvToKeytar(m, n)
  \/ \E m \in Managers, p \in ProvidedSalts : InitializeSalt(m, TRUE, p, EMPTY)
  \/ \E m \in Managers, t \in RandomTokens : InitializeSalt(m, FALSE, EMPTY, t)

Spec == Init /\ [][Next]_vars

\* ============================================================ batch scripts
\* The command-line scripts (bin/save.ts, bin/save-env.ts, the set-secret
\* script, bin/delete.ts) and the interactive modes cliDeleteSecrets and
\* cliConvertEnv: each builds one manager and loops over the requested items.

\* most items one script run is asked to process
MaxItems == 2

\* names a script run is given; the environment may define any of them
BatchNames == {"K", "L"}

\* the service the scripts are run for
ScriptService == "svcA"

ScriptKinds == {"save", "set", "delete", "cliDelete", "cliConvert"}

\* scripts that end with process.exit(code); the CLI modes return to the menu
ExitingKinds == {"save", "set", "delete"}

\* flows that ask for confirmation first: cliDeleteSecrets always, the delete
\* script when it was started without arguments
AsksConfirmation(kind, interactive) ==
  kind = "cliDelete" \/ (kind = "delete" /\ interactive)

\* the item lists a run may be given: names, for the set script with a value
ItemLists(kind) ==
  UNION {[1..k -> [name : BatchNames,
                   value : IF kind = "set" THEN {<<"v">>} ELSE {EMPTY}]]
           : k \in 1..MaxItems}

\* what the user types at the confirmation prompt
AnswerInputs ==
  {<<"y">>, <<"Y">>, <<"y", "e", "s">>, <<"Y", "E", "S">>, <<"Y", "e", "s">>,
   <<" ", "y">>, <<"n">>, <<"n", "o">>, <<"y", "y">>, EMPTY}

\* String.prototype.toLowerCase() on the letters the answers are made of
LowerChar(c) ==
  CASE c = "Y" -> "y"
    [] c = "E" -> "e"
    [] c = "S" -> "s"
    [] c = "N" -> "n"
    [] c = "O" -> "o"
    [] OTHER -> c

ToLowerCase(s) == [i \in 1..Len(s) |-> LowerChar(s[i])]

\* prompt(question): the line typed, trimmed
Prompt(raw) == Trim(raw)

\* a confirmation that accepts every answer beginning with y
IsConfirmedPrefix(answer) ==
  answer # EMPTY /\ LowerChar(answer[1]) = "y"

\* confirm.toLowerCase() === 'y' || confirm.toLowerCase() === 'yes'
IsConfirmed(answer) ==
  ToLowerCase(answer) = <<"y">> \/ ToLowerCase(answer) = <<"y", "e", "s">>

\* the manager call a script makes for one item, with the store it leaves
ItemOutcome(kind, m, item) ==
  CASE kind \in {"save", "cliConvert"} ->
         LET o == SaveEnvOutcome(m, item.name) IN [out |-> o.out, store |-> o.store]
    [] kind = "set" ->
         LET o == SetSecretOutcome(m, item.name, item.value) IN
           [out |-> o.out, store |-> o.store]
    [] kind \in {"delete", "cliDelete"} ->
         LET o == DeleteSecretOutcome(m, item.name) IN
           [out |-> o.out, store |-> o.store]

\* a delete loop that counts only a thrown error as a failure
ItemFailedOnThrowOnly(kind, out) ==
  CASE kind = "save" -> out # "true"
    [] kind = "set" -> out = "throw"
    [] kind = "delete" -> out = "throw"
    [] OTHER -> FALSE

\* whether the loop body sets hasError for the outcome of an item
ItemFailed(kind, out) ==
  CASE kind = "save" -> out # "true"
    [] kind = "set" -> out = "throw"
    [] kind = "delete" -> out # "true"
    [] OTHER -> FALSE

\* a loop that stops at the first item that failed
NextIndexAbortOnFailure(i, n, out) ==
  IF out \in {"false", "throw"} THEN n + 1 ELSE i + 1

\* for (const x of xs): the index of the item processed next
NextIndex(i, n, out) == i + 1

\* a script that always reports success
ExitCodeAlwaysZero(hasError) == 0

\* if (hasError) process.exit(1) else process.exit(0)
ExitCode(hasError) == IF hasError THEN 1 ELSE 0

\* a script is started with its arguments (or its prompts answered)
ScriptStart(kind, interactive, items) ==
  /\ script = NoScript
  /\ script' = [kind |-> kind, interactive |-> interactive,
                pc |-> IF AsksConfirmation(kind, interactive)
                       THEN "confirm" ELSE "loop",
                manager |-> createSecretsManager(ScriptService),
                items |-> items, i |-> 1, hasError |-> FALSE,
                answer |-> EMPTY, confirmed |-> FALSE,
                attempted |-> << >>, results |-> << >>,
                store0 |-> store, exit |-> -1]
  /\ UNCHANGED <<env, store, keytar, written, last, race>>

\* the confirmation prompt of the delete flows is answered
ScriptConfirm(raw) ==
  /\ script.pc = "confirm"
  /\ LET answer == Prompt(raw) IN
     script' = [script EXCEPT
                  !.answer = answer,
                  !.confirmed = IsConfirmed(answer),
                  !.pc = IF IsConfirmed(answer) THEN "loop"
                         ELSE IF script.kind = "delete" THEN "exited"
                         ELSE "returned",
                  !.exit = IF ~IsConfirmed(answer) /\ script.kind = "delete"
                           THEN 0 ELSE @]
  /\ UNCHANGED <<env, store, keytar, written, last, race>>

\* one iteration of the loop over the requested items
ScriptItem ==
  /\ script.pc = "loop"
  /\ script.i <= Len(script.items)
  /\ LET item == script.items[script.i]
         o == ItemOutcome(script.kind, script.manager, item)
     IN /\ store' = o.store
        /\ script' = [script EXCEPT
                        !.i = NextIndex(script.i, Len(script.items), o.out),
                        !.hasError = @ \/ ItemFailed(script.kind, o.out),
                        !.attempted = Append(@, item.name),
                        !.results = Append(@, o.out)]
  /\ UNCHANGED <<env, keytar, written, last, race>>

\* the loop is over: the script exits with its code, a CLI mode returns
ScriptFinish ==
  /\ script.pc = "loop"
  /\ script.i > Len(script.items)
  /\ script' = [script EXCEPT
                  !.pc = IF script.kind \in ExitingKinds THEN "exited"
                         ELSE "returned",
                  !.exit = IF script.kind \in ExitingKinds
                           THEN ExitCode(script.hasError) ELSE @]
  /\ UNCHANGED <<env, store, keytar, written, last, race>>

\* the platform: keytar becomes unavailable, or available again, during a run
ScriptSetKeytar(mode) ==
  /\ script.pc = "loop"
  /\ mode # keytar
  /\ keytar' = mode
  /\ UNCHANGED <<env, store, written, last, script, race>>

\* the environment and the store a script is started in
ScriptInit ==
  /\ env \in {e \in UNION {[d -> EnvValues] : d \in SUBSET BatchNames} :
                "L" \in DOMAIN e => e["L"] = <<"v">>}
  /\ store \in UNION {[{Key(ScriptService, n) : n \in d} -> {<<"w">>}]
                        : d \in SUBSET BatchNames}
  /\ keytar \in KeytarModes
  /\ written = [s \in Services |-> << >>]
  /\ last = NoOp
  /\ script = NoScript
  /\ race = NoRace

ScriptNext ==
  \/ \E kind \in ScriptKinds, interactive \in BOOLEAN :
       \E items \in ItemLists(kind) : ScriptStart(kind, interactive, items)
  \/ \E raw \in AnswerInputs : ScriptConfirm(raw)
  \/ ScriptItem
  \/ ScriptFinish
  \/ \E mode \in KeytarModes : ScriptSetKeytar(mode)

ScriptSpec == ScriptInit /\ [][ScriptNext]_vars

\* ======================================================== racing processes
\* Two processes work on one base service that has no salt yet: one calls
\* initializeSalt, which reads the salt entry and, finding none, writes one;
\* the other calls setSecretToKeytar. Each keytar call is one step; nothing
\* orders the steps of the two processes.

\* the base service the two processes share
RaceService == "svcA"

\* a setSecretToKeytar that reads the salt of its service before it writes
SetSecretReadsSalt(m, name) ==
  IF name = ReservedSaltName THEN {} ELSE {Key(m.serviceName, m.saltKey)}

\* the store entries setSecretToKeytar reads before it writes: none
SetSecretReads(m, name) == {}

\* the calls the two processes are about to make
RaceInit ==
  /\ env = << >>
  /\ store \in UNION {[{Key(RaceService, n) : n \in d} -> {<<"w">>}]
                        : d \in SUBSET {"K"}}
  /\ keytar \in KeytarModes
  /\ written = [s \in Services |-> << >>]
  /\ last = NoOp
  /\ script = NoScript
  /\ race \in [pc : {"run"},
               manager : {createSecretsManager(RaceService)},
               given : BOOLEAN, salt : ProvidedSalts \cup RandomTokens,
               name : Names, value : SecretValues,
               pc1 : {"start"}, out1 : {""}, str1 : {EMPTY},
               pc2 : {"start"}, out2 : {""}, reads2 : {{}},
               setDuring : {FALSE}]
  /\ race.given <=> race.salt \in ProvidedSalts

\* initializeSalt, first half: read the existing salt
RaceInitRead ==
  /\ race.pc = "run"
  /\ race.pc1 = "start"
  /\ LET m == race.manager IN
     race' = IF keytar # "ok"
             THEN [race EXCEPT !.pc1 = "done", !.out1 = "throw"]
             ELSE IF HasPassword(store, m.serviceName, m.saltKey)
             THEN [race EXCEPT !.pc1 = "done", !.out1 = "return",
                               !.str1 = store[Key(m.serviceName, m.saltKey)]]
             ELSE [race EXCEPT !.pc1 = "read"]
  /\ UNCHANGED <<env, store, keytar, written, last, script>>

\* initializeSalt, second half: no salt was found, persist the new one
RaceInitWrite ==
  /\ race.pc = "run"
  /\ race.pc1 = "read"
  /\ LET m == race.manager IN
     IF keytar # "ok"
     THEN /\ race' = [race EXCEPT !.pc1 = "done", !.out1 = "throw"]
          /\ store' = store
     ELSE /\ race' = [race EXCEPT !.pc1 = "done", !.out1 = "return",
                                  !.str1 = race.salt]
          /\ store' = KeytarSetPassword(store, m.serviceName, m.saltKey,
                                        race.salt)
  /\ UNCHANGED <<env, keytar, written, last, script>>

\* the other process calls setSecretToKeytar(name, value)
RaceSetSecret ==
  /\ race.pc = "run"
  /\ race.pc2 = "start"
  /\ LET m == race.manager
         o == SetSecretOutcome(m, race.name, race.value)
     IN /\ store' = o.store
        /\ race' = [race EXCEPT !.pc2 = "done", !.out2 = o.out,
                                !.reads2 = SetSecretReads(m, race.name),
                                !.setDuring = (race.pc1 = "read")]
  /\ UNCHANGED <<env, keytar, written, last, script>>

\* the platform: keytar becomes unavailable, or available again
RaceSetKeytar(mode) ==
  /\ race.pc = "run"
  /\ race.pc1 # "done" \/ race.pc2 # "done"
  /\ mode # keytar
  /\ keytar' = mode
  /\ UNCHANGED <<env, store, written, last, script, race>>

RaceNext ==
  \/ RaceInitRead
  \/ RaceInitWrite
  \/ RaceSetSecret
  \/ \E mode \in KeytarModes : RaceSetKeytar(mode)

RaceSpec == RaceInit /\ [][RaceNext]_vars

\* ============================================================ salt scripts
\* bin/initialize.ts (its second script, which takes a salt key) run for a
\* service, then bin/read-salt.ts run for the same service.

\* the service both scripts are run for
SaltScriptService == "svcA"

\* saltKey = envSaltKey || 'salt-key' of the initialize script
InitializeDefaultSaltKey == "salt-key"

\* args[1] || 'to-be-generated' of the read-salt script
ReadSaltDefaultSaltKey == "to-be-generated"

\* a SALT_KEY argument, or a KEYTAR_SALT_KEY value; "" stands for none given
SaltKeyInputs == {"", "custom-salt-key"}

\* a manager bound to a base service and a salt storage key
createSaltedManager(serviceName, saltKey) ==
  [serviceName |-> serviceName, saltKey |-> saltKey]

\* initialize script: saltKey = args[1], else envSaltKey || 'salt-key'
InitializeSaltKey(arg, envSaltKey) ==
  IF arg # "" THEN arg
  ELSE IF envSaltKey # "" THEN envSaltKey
  ELSE InitializeDefaultSaltKey

\* read-salt script: const saltKey = args[1] || 'to-be-generated'
ReadSaltKey(arg) == IF arg # "" THEN arg ELSE ReadSaltDefaultSaltKey

\* the arguments and the environment the two scripts are run with
SaltScriptInit ==
  /\ env = << >>
  /\ store \in UNION {[{Key(SaltScriptService, k) : k \in d} -> {<<"v">>}]
                        : d \in SUBSET {InitializeDefaultSaltKey}}
  /\ keytar \in KeytarModes
  /\ written = [s \in Services |-> << >>]
  /\ last = NoOp
  /\ race = NoRace
  /\ script \in [kind : {"salt"}, pc : {"initialize"},
                 initArg : SaltKeyInputs, envSaltKey : SaltKeyInputs,
                 given : BOOLEAN, salt : ProvidedSalts \cup RandomTokens,
                 readArg : SaltKeyInputs \cup {InitializeDefaultSaltKey},
                 initKey : {""}, initExit : {-1}, initSalt : {EMPTY},
                 created : {FALSE},
                 readKey : {""}, readExit : {-1}, reported : {EMPTY}]
  /\ script.given <=> script.salt \in ProvidedSalts

\* the initialize script: build the manager, call initializeSalt, exit
RunInitialize ==
  /\ script.kind = "salt"
  /\ script.pc = "initialize"
  /\ LET saltKey == InitializeSaltKey(script.initArg, script.envSaltKey)
         m == createSaltedManager(SaltScriptService, saltKey)
         o == InitializeSaltOutcome(m, script.given, script.salt, script.salt)
     IN /\ store' = o.store
        /\ script' = [script EXCEPT
                        !.pc = "read-salt",
                        !.initKey = saltKey,
                        !.initExit = IF o.out = "throw" THEN 1 ELSE 0,
                        !.initSalt = o.str,
                        !.created = (o.out = "return" /\ o.from # "existing")]
  /\ UNCHANGED <<env, keytar, written, last, race>>

\* the read-salt script: read (serviceName, saltKey), report, exit
RunReadSalt ==
  /\ script.kind = "salt"
  /\ script.pc = "read-salt"
  /\ LET saltKey == ReadSaltKey(script.readArg)
         found == keytar = "ok" /\ HasPassword(store, SaltScriptService, saltKey)
         salt == IF found THEN store[Key(SaltScriptService, saltKey)] ELSE EMPTY
     IN script' = [script EXCEPT
                     !.pc = "done",
                     !.readKey = saltKey,
                     !.readExit = IF found /\ Truthy(salt) THEN 0 ELSE 1,
                     !.reported = salt]
  /\ UNCHANGED <<env, store, keytar, written, last, race>>

\* the platform: keytar becomes unavailable, or available again
SaltScriptSetKeytar(mode) ==
  /\ script.kind = "salt"
  /\ script.pc \in {"initialize", "read-salt"}
  /\ mode # keytar
  /\ keytar' = mode
  /\ UNCHANGED <<env, store, written, last, script, race>>

SaltScriptNext ==
  \/ RunInitialize
  \/ RunReadSalt
  \/ \E mode \in KeytarModes : SaltScriptSetKeytar(mode)

SaltScriptSpec == SaltScriptInit /\ [][SaltScriptNext]_vars

\* ================================================================ properties
\* the manager that performed the recorded operation l
ManagerOf(l) == createSecretsManager(l.svc)

\* the store entries that belong to service svc
EntriesOf(st, svc) == {k \in DOMAIN st : k[1] = svc}

\* st2 differs from st1 at most in the entry k
SameExcept(st1, st2, k) ==
  /\ DOMAIN st1 \ {k} = DOMAIN st2 \ {k}
  /\ \A j \in DOMAIN st1 \ {k} : st2[j] = st1[j]

\* C1: whenever the environment variable of a name is present and non-blank
\* with value v, getSecret(name) returns v, whatever the store holds for the
\* name and whether or not the store is available.
C1_EnvWins ==
  (last.op = "get" /\ EnvNonBlank(last.name))
    => (last.out = "return" /\ last.str = env[last.name])

\* C1 witness: getSecret answered from the environment while the store held a
\* different value under the same name.
C1_Witness ==
  /\ last.op = "get"
  /\ EnvNonBlank(last.name)
  /\ last.str = env[last.name]
  /\ HasPassword(store, last.svc, last.name)
  /\ store[Key(last.svc, last.name)] # env[last.name]

\* C2: round trip: a getSecret(name) that directly follows a successful
\* setSecretToKeytar(name, v) on the same manager, with no non-blank
\* environment variable of that name, returns v.
C2_RoundTrip ==
  [][(/\ last.op = "set" /\ last.out = "void"
      /\ last'.op = "get" /\ last'.svc = last.svc /\ last'.name = last.name
      /\ ~EnvNonBlank(last.name))
     => (last'.out = "return" /\ last'.str = last.val)]_vars

\* C2 witness: getSecret returned, from the store, the value its manager wrote.
C2_Witness ==
  /\ last.op = "get"
  /\ last.from = "store"
  /\ ~EnvNonBlank(last.name)
  /\ last.name \in DOMAIN written[last.svc]
  /\ last.str = written[last.svc][last.name]

\* C3: scope isolation: once two managers with different service names have
\* both written a secret under the same name, a getSecret of that name (no
\* environment override, store available) returns to each manager the value
\* that manager wrote.
C3_Isolation ==
  \A other \in Services :
    (/\ last.op = "get"
     /\ other # last.svc
     /\ last.name \in DOMAIN written[last.svc]
     /\ last.name \in DOMAIN written[other]
     /\ ~EnvNonBlank(last.name)
     /\ keytar = "ok")
    => (last.out = "return" /\ last.str = written[last.svc][last.name])

\* C3 witness: two managers wrote different values under one name and a
\* getSecret returned its own manager's value.
C3_Witness ==
  \E other \in Services :
    /\ last.op = "get"
    /\ other # last.svc
    /\ last.name \in DOMAIN written[last.svc]
    /\ last.name \in DOMAIN written[other]
    /\ written[other][last.name] # written[last.svc][last.name]
    /\ last.from = "store"
    /\ last.str = written[last.svc][last.name]

\* C4: with the store available, deleteSecretFromKeytar(name) on an existing
\* entry returns true and a following getSecret(name) without environment
\* override returns the empty (absent) result; on a missing entry it returns
\* false and does not throw.
C4_Delete ==
  [][\A m \in Managers, n \in Names :
       (/\ last'.op = "delete" /\ ManagerOf(last') = m /\ last'.name = n
        /\ keytar = "ok")
       => IF HasPassword(store, m.serviceName, n)
          THEN /\ last'.out = "true"
               /\ ~EnvNonBlank(n)
                    => (/\ GetSecretOutcome(m, n)'.out = "return"
                        /\ GetSecretOutcome(m, n)'.str = EMPTY)
          ELSE last'.out = "false"]_vars

\* C4 witness: a delete returned true, no environment value hides the result,
\* and the entry is gone.
C4_Witness ==
  /\ last.op = "delete"
  /\ last.out = "true"
  /\ ~EnvNonBlank(last.name)
  /\ ~HasPassword(store, last.svc, last.name)

\* C5: getSecret never throws; when the environment has no non-blank value
\* for the name and the store is unavailable (keytar missing, or its lookup
\* throwing), it returns the empty (absent) result.
C5_GetNeverFails ==
  last.op = "get"
    => /\ last.out = "return"
       /\ (~EnvNonBlank(last.name) /\ keytar # "ok") => last.str = EMPTY

\* C5 witness: getSecret ran against an unavailable store that holds the entry
\* and returned the empty result.
C5_Witness ==
  /\ last.op = "get"
  /\ keytar # "ok"
  /\ ~EnvNonBlank(last.name)
  /\ HasPassword(store, last.svc, last.name)
  /\ last.out = "return"
  /\ last.str = EMPTY

C7_FreshServiceWrite ==
  [][\A m \in Managers, n \in Names :
       (/\ last'.op = "set" /\ ManagerOf(last') = m /\ last'.name = n
        /\ keytar = "ok"
        /\ EntriesOf(store, m.serviceName) = {})
       => /\ last'.out = "void"
          /\ ~EnvNonBlank(n)
               => (/\ GetSecretOutcome(m, n)'.out = "return"
                   /\ GetSecretOutcome(m, n)'.str = last'.val)]_vars

\* C7 witness: the only entry of the service is the one just written, and it
\* is readable.
C7_Witness ==
  /\ last.op = "set"
  /\ last.out = "void"
  /\ EntriesOf(store, last.svc) = {Key(last.svc, last.name)}
  /\ ~EnvNonBlank(last.name)
  /\ GetSecretOutcome(ManagerOf(last), last.name).str = last.val

\* C8: salt precedence: with the store available, initializeSalt(X) called
\* while a salt exists for the base service returns the existing salt, not X,
\* and leaves the store as it was.
C8_SaltPrecedence ==
  [][(/\ last'.op = "init"
      /\ keytar = "ok"
      /\ HasPassword(store, last'.svc, last'.name))
     => /\ last'.out = "return"
        /\ last'.str = store[Key(last'.svc, last'.name)]
        /\ store' = store]_vars

\* C8 witness: initializeSalt was given a salt and returned a different,
\* existing one.
C8_Witness ==
  /\ last.op = "init"
  /\ last.given
  /\ last.from = "existing"
  /\ last.str # last.val
  /\ store[Key(last.svc, last.name)] = last.str

\* C9: idempotence: an initializeSalt call that directly follows a successful
\* initializeSalt call on the same base service returns the same salt, and the
\* store holds exactly that salt afterwards.
C9_Idempotent ==
  [][(/\ last.op = "init" /\ last.out = "return"
      /\ last'.op = "init" /\ last'.svc = last.svc /\ last'.name = last.name)
     => /\ last'.out = "return"
        /\ last'.str = last.str
        /\ HasPassword(store', last.svc, last.name)
        /\ store'[Key(last.svc, last.name)] = last.str]_vars

\* C9 witness: initializeSalt() without argument returned an existing
\* generated token, which the store holds.
C9_Witness ==
  /\ last.op = "init"
  /\ ~last.given
  /\ last.from = "existing"
  /\ last.str \in RandomTokens
  /\ store[Key(last.svc, last.name)] = last.str

\* C10: with the store available, initializeSalt(providedSalt) called while
\* the base service has no salt persists a salt under (baseServiceName,
\* saltStorageKey) and returns it: the provided salt when one is given,
\* otherwise an 8-character alphanumeric token; reading that entry afterwards
\* yields the returned value.
C10_FreshSalt ==
  [][(/\ last'.op = "init"
      /\ keytar = "ok"
      /\ ~HasPassword(store, last'.svc, last'.name))
     => /\ last'.out = "return"
        /\ last'.given => last'.str = last'.val
        /\ ~last'.given
             => (/\ Len(last'.str) = 8
                 /\ \A i \in 1..Len(last'.str) : last'.str[i] \in Alphanumeric)
        /\ HasPassword(store', last'.svc, last'.name)
        /\ store'[Key(last'.svc, last'.name)] = last'.str]_vars

\* C10 witness: a generated salt was persisted and returned.
C10_Witness ==
  /\ last.op = "init"
  /\ last.from = "generated"
  /\ Len(last.str) = 8
  /\ store[Key(last.svc, last.name)] = last.str

C13_BlankIsAbsent ==
  (/\ last.op = "get"
   /\ \/ ~EnvDefined(last.name)
      \/ env[last.name] = EMPTY
      \/ \A i \in 1..Len(env[last.name]) : IsWhitespace(env[last.name][i])
   /\ keytar = "ok"
   /\ HasPassword(store, last.svc, last.name))
  => (/\ last.out = "return"
      /\ last.from = "store"
      /\ last.str = store[Key(last.svc, last.name)])

\* C13 witness: the environment variable is set to whitespace only, and
\* getSecret returned the stored value.
C13_Witness ==
  /\ last.op = "get"
  /\ EnvDefined(last.name)
  /\ env[last.name] # EMPTY
  /\ \A i \in 1..Len(env[last.name]) : IsWhitespace(env[last.name][i])
  /\ last.from = "store"
  /\ last.str = store[Key(last.svc, last.name)]
  /\ last.str # env[last.name]

\* C14: setSecretToKeytar and deleteSecretFromKeytar called while the
\* credential store cannot be obtained throw (StoreUnavailable) to their
\* caller and leave the store contents unchanged.
C14_StoreUnavailable ==
  [][(last'.op \in {"set", "delete"} /\ keytar # "ok")
     => (/\ last'.out = "throw"
         /\ last'.from = "StoreUnavailable"
         /\ store' = store)]_vars

\* C14 witness: a write threw StoreUnavailable and the value is not in the
\* store.
C14_Witness ==
  /\ last.op = "set"
  /\ keytar # "ok"
  /\ last.out = "throw"
  /\ last.from = "StoreUnavailable"
  /\ ~HasPassword(store, last.svc, last.name)

\* C15: saveEnvToKeytar(name) returns false and leaves the credential store
\* unchanged whenever the environment variable of the name is unset, empty or
\* whitespace-only.
C15_SaveBlank ==
  [][(/\ last'.op = "save"
      /\ \/ ~EnvDefined(last'.name)
         \/ env[last'.name] = EMPTY
         \/ \A i \in 1..Len(env[last'.name]) : IsWhitespace(env[last'.name][i]))
     => (last'.out = "false" /\ store' = store)]_vars

\* C15 witness: with the store available and the environment variable set to
\* whitespace only, saveEnvToKeytar returned false and the store has no entry
\* for the name.
C15_Witness ==
  /\ last.op = "save"
  /\ last.out = "false"
  /\ keytar = "ok"
  /\ EnvDefined(last.name)
  /\ env[last.name] # EMPTY
  /\ \A i \in 1..Len(env[last.name]) : IsWhitespace(env[last.name][i])
  /\ ~HasPassword(store, last.svc, last.name)

\* C16: when the environment variable of the name has a non-blank value v and
\* the store is available, saveEnvToKeytar(name) returns true and stores v
\* under the name; and once the environment variable is removed right after a
\* successful saveEnvToKeytar(name), getSecret(name) returns v.
C16_SaveThenGet ==
  [][\A m \in Managers, n \in Names :
       /\ (/\ last'.op = "save" /\ ManagerOf(last') = m /\ last'.name = n
           /\ keytar = "ok"
           /\ EnvNonBlank(n))
          => (/\ last'.out = "true"
              /\ HasPassword(store', m.serviceName, n)
              /\ store'[Key(m.serviceName, n)] = env[n])
       /\ (/\ last.op = "save" /\ last.out = "true"
           /\ ManagerOf(last) = m /\ last.name = n
           /\ EnvDefined(n) /\ ~EnvDefined(n)')
          => (/\ GetSecretOutcome(m, n)'.out = "return"
              /\ GetSecretOutcome(m, n)'.str = env[n])]_vars

\* C16 witness: saveEnvToKeytar returned true, the store holds the environment
\* value under the name, and a getSecret without the environment variable
\* would read it from the store.
C16_Witness ==
  /\ last.op = "save"
  /\ last.out = "true"
  /\ EnvNonBlank(last.name)
  /\ store[Key(last.svc, last.name)] = env[last.name]
  /\ KeytarLookup(ManagerOf(last), last.name).value = env[last.name]

\* C17: the environment override is transient: once a manager has written k1
\* under a name (and not deleted it), every getSecret(name) returns the
\* environment value while the environment variable is non-blank, and returns
\* k1 whenever it is not (store available); the stored value is k1 throughout,
\* whatever the environment was set to and however many reads were overridden.
C17_TransientOverride ==
  (last.op = "get" /\ last.name \in DOMAIN written[last.svc])
  => (/\ HasPassword(store, last.svc, last.name)
      /\ store[Key(last.svc, last.name)] = written[last.svc][last.name]
      /\ EnvNonBlank(last.name) => last.str = env[last.name]
      /\ (~EnvNonBlank(last.name) /\ keytar = "ok")
           => last.str = written[last.svc][last.name])

\* C17 witness: a getSecret returned an environment value that differs from
\* the value its manager wrote, and the store still holds the written value.
C17_Witness ==
  /\ last.op = "get"
  /\ last.from = "env"
  /\ last.name \in DOMAIN written[last.svc]
  /\ last.str = env[last.name]
  /\ written[last.svc][last.name] # env[last.name]
  /\ store[Key(last.svc, last.name)] = written[last.svc][last.name]

\* C18: last write wins: a setSecretToKeytar(name, v2) that directly follows a
\* successful setSecretToKeytar(name, v1) on the same manager does not throw,
\* leaves the store with the same entries, the entry of the name now holding
\* v2 and every other entry as it was, and getSecret(name) without environment
\* override then returns v2.
C18_LastWriteWins ==
  [][\A m \in Managers, n \in Names :
       (/\ last.op = "set" /\ last.out = "void"
        /\ ManagerOf(last) = m /\ last.name = n
        /\ last'.op = "set" /\ ManagerOf(last') = m /\ last'.name = n)
       => (/\ last'.out = "void"
           /\ DOMAIN store' = DOMAIN store
           /\ store'[Key(m.serviceName, n)] = last'.val
           /\ SameExcept(store, store', Key(m.serviceName, n))
           /\ ~EnvNonBlank(n)
                => (/\ GetSecretOutcome(m, n)'.out = "return"
                    /\ GetSecretOutcome(m, n)'.str = last'.val))]_vars

\* C18 witness: a write replaced a different value of the same entry, the
\* entry holds the new value, and getSecret reads the new value.
C18_Witness ==
  /\ last.op = "set"
  /\ last.out = "void"
  /\ last.name # ReservedSaltName
  /\ last.str # EMPTY
  /\ last.str # last.val
  /\ ~EnvNonBlank(last.name)
  /\ store[Key(last.svc, last.name)] = last.val
  /\ GetSecretOutcome(ManagerOf(last), last.name).str = last.val

C24_SaveNeverRaises ==
  [][last'.op = "save"
     => (/\ last'.out \in {"true", "false"}
         /\ (EnvNonBlank(last'.name) /\ keytar # "ok")
              => (last'.out = "false" /\ store' = store))]_vars

\* C24 witness: the environment value is non-blank, the store is unavailable,
\* and saveEnvToKeytar returned false with nothing stored under the name.
C24_Witness ==
  /\ last.op = "save"
  /\ last.out = "false"
  /\ EnvNonBlank(last.name)
  /\ keytar # "ok"
  /\ ~HasPassword(store, last.svc, last.name)

\* C25: no caching: the result of getSecret(name) is the function of the
\* environment, the store contents and the store's availability at the time of
\* the call that the resolution order defines, whatever calls preceded and
\* whichever manager instance of that service is asked.
C25_NoCache ==
  last.op = "get"
  => (/\ last.out = "return"
      /\ last.str =
           IF /\ last.name \in DOMAIN env
              /\ \E i \in 1..Len(env[last.name]) : ~IsWhitespace(env[last.name][i])
           THEN env[last.name]
           ELSE IF keytar = "ok" /\ Key(last.svc, last.name) \in DOMAIN store
           THEN store[Key(last.svc, last.name)]
           ELSE EMPTY)

\* C25 witness: the manager wrote a value under the name earlier, the store
\* still holds it but is unavailable now, and getSecret returned the empty
\* string, not the value written earlier.
C25_Witness ==
  /\ last.op = "get"
  /\ ~EnvNonBlank(last.name)
  /\ keytar # "ok"
  /\ last.name \in DOMAIN written[last.svc]
  /\ store[Key(last.svc, last.name)] = written[last.svc][last.name]
  /\ last.str = EMPTY

\* C26: getSecret is read-only: in every outcome (environment hit, store hit,
\* not found, store failure) it leaves the credential store and the
\* environment unchanged.
C26_GetReadOnly ==
  [][last'.op = "get" => (store' = store /\ env' = env)]_vars

\* C26 witness: getSecret answered from the environment and the store holds
\* no entry for the name.
C26_Witness ==
  /\ last.op = "get"
  /\ last.from = "env"
  /\ keytar = "ok"
  /\ ~HasPassword(store, last.svc, last.name)

\* C27: each setSecretToKeytar, deleteSecretFromKeytar or saveEnvToKeytar call
\* on a manager changes at most the store entry (that manager's service, the
\* given name): every entry under another name or of another service is
\* unchanged.
C27_SingleEntryFrame ==
  [][last'.op \in {"set", "delete", "save"}
     => SameExcept(store, store', Key(last'.svc, last'.name))]_vars

\* C27 witness: a manager deleted its entry of a name while another service
\* keeps its own entry of the same name.
C27_Witness ==
  \E other \in Services :
    /\ last.op = "delete"
    /\ last.out = "true"
    /\ other # last.svc
    /\ ~HasPassword(store, last.svc, last.name)
    /\ HasPassword(store, other, last.name)

\* the run got past its confirmation prompt, if it has one
ReachedLoop ==
  AsksConfirmation(script.kind, script.interactive) => script.confirmed

\* the run is over
ScriptEnded == script.pc \in {"exited", "returned"}

\* C21: each batch script (save environment variables, set secrets, delete
\* secrets) that ran its loop exits with code 0 if and only if every requested
\* per-item operation succeeded (saveEnvToKeytar returned true,
\* setSecretToKeytar did not throw, deleteSecretFromKeytar returned true), and
\* with code 1 otherwise.
C21_ExitCode ==
  (script.kind \in ExitingKinds /\ script.pc = "exited" /\ ReachedLoop)
  => (/\ script.exit \in {0, 1}
      /\ script.exit = 0
           <=> \A k \in 1..Len(script.items) :
                 /\ k <= Len(script.results)
                 /\ script.results[k]
                      = (IF script.kind = "set" THEN "void" ELSE "true"))

\* C21 witness: the set-secret script exited with code 1 after its first item
\* failed and its second item was saved.
C21_Witness ==
  /\ script.kind = "set"
  /\ script.pc = "exited"
  /\ script.results = <<"throw", "void">>
  /\ script.exit = 1
  /\ HasPassword(store, ScriptService, script.items[2].name)

\* C22: batch operations never abort early: in the batch scripts and in the
\* convert-environment mode the names attempted so far are the first of the
\* requested names, in the order given, each once, and when the loop is over
\* every requested name has been attempted, whatever failed on the way.
C22_NoEarlyAbort ==
  script.kind \in ExitingKinds \cup {"cliConvert"}
  => (/\ Len(script.attempted) <= Len(script.items)
      /\ \A k \in 1..Len(script.attempted) :
           script.attempted[k] = script.items[k].name
      /\ (ScriptEnded /\ ReachedLoop)
           => Len(script.attempted) = Len(script.items))

\* C22 witness: the convert-environment mode returned after two names, the
\* first of which failed and the second of which was saved.
C22_Witness ==
  /\ script.kind = "cliConvert"
  /\ script.pc = "returned"
  /\ script.results = <<"false", "true">>
  /\ Len(script.attempted) = 2
  /\ script.attempted[1] # script.attempted[2]

\* C23: in the interactive delete flows no deleteSecretFromKeytar call is made
\* unless the answer to the confirmation prompt is y or yes in any letter case;
\* any other answer ends the flow with the credential store unchanged.
C23_ConfirmedDelete ==
  LET a == script.answer
      yes == \/ Len(a) = 1 /\ a[1] \in {"y", "Y"}
             \/ /\ Len(a) = 3
                /\ a[1] \in {"y", "Y"}
                /\ a[2] \in {"e", "E"}
                /\ a[3] \in {"s", "S"}
  IN (/\ script.kind \in {"delete", "cliDelete"}
      /\ AsksConfirmation(script.kind, script.interactive)
      /\ (script.pc = "confirm" \/ ~yes))
     => (/\ script.attempted = << >>
         /\ store = script.store0
         /\ script.pc # "confirm" => ScriptEnded
         /\ (script.pc = "exited") => script.exit = 0)

\* C23 witness: the user answered yy, the flow ended and the entry it was
\* asked to delete is still in the (available) store.
C23_Witness ==
  /\ script.kind = "cliDelete"
  /\ script.pc = "returned"
  /\ script.answer = <<"y", "y">>
  /\ keytar = "ok"
  /\ script.attempted = << >>
  /\ HasPassword(store, ScriptService, script.items[1].name)

\* C29: in the batch delete script a name for which deleteSecretFromKeytar
\* returned false counts as a failed item: the script exits with a non-zero
\* code, every requested name was still attempted, and no name whose delete
\* returned is left in the store.
C29_DeleteMissingFails ==
  (/\ script.kind = "delete" /\ script.pc = "exited" /\ ReachedLoop
   /\ \E k \in 1..Len(script.results) : script.results[k] = "false")
  => (/\ script.exit # 0
      /\ Len(script.attempted) = Len(script.items)
      /\ \A k \in 1..Len(script.results) :
           script.results[k] # "throw"
             => ~HasPassword(store, ScriptService, script.items[k].name))

\* C29 witness: the first name had no entry, the second had one; the script
\* deleted the second and exited with code 1.
C29_Witness ==
  /\ script.kind = "delete"
  /\ script.pc = "exited"
  /\ script.results = <<"false", "true">>
  /\ script.exit = 1
  /\ HasPassword(script.store0, ScriptService, script.items[2].name)
  /\ ~HasPassword(store, ScriptService, script.items[2].name)

C30_Original ==
  (/\ script.kind = "salt"
   /\ script.pc = "done"
   /\ script.initArg = ""
   /\ script.created
   /\ script.initExit = 0
   /\ script.readArg = ""
   /\ keytar = "ok")
  => (/\ script.readKey = script.initKey
      /\ script.reported = script.initSalt
      /\ script.readExit = 0)

\* C30 witness: the initialize script created a salt under its default key and
\* exited with code 0; the read-salt script, run without a salt key and with
\* the store available, looked under another key and exited with code 1.
C30_Witness ==
  /\ script.kind = "salt"
  /\ script.pc = "done"
  /\ script.initArg = ""
  /\ script.envSaltKey = ""
  /\ script.created
  /\ script.initExit = 0
  /\ script.readArg = ""
  /\ keytar = "ok"
  /\ store[Key(SaltScriptService, script.initKey)] = script.initSalt
  /\ script.readKey # script.initKey
  /\ script.readExit = 1

====
